---- MODULE Spec2Model ----
(***************************************************************************)
(* Model of the contentPlan job workflow: one Job row and its Theme rows   *)
(* in the shared store, the web handlers process_job and theme_selection   *)
(* (app.py), and the two Celery tasks process_workflow_task and            *)
(* continue_workflow_after_selection_task (tasks.py).                      *)
(*                                                                         *)
(* Every action is one database-visible step of a handler or task: the     *)
(* reads it makes and the commit that ends it.  Steps of different         *)
(* requests and task executions interleave freely (separate web and        *)
(* worker processes over one store).                                       *)
(*                                                                         *)
(* The retry loops of the two provider adapters (utils/agents.py,           *)
(* utils/search.py) are modelled as call frames of their own.              *)
(*                                                                         *)
(* Text values are abstracted to the property the code tests: a completion *)
(* result or stored field is NULL, "short" (empty or under 100 characters  *)
(* after trimming) or "valid".  Job.messages is abstracted to its length   *)
(* and, in Job.logged, to the set of error texts its entries carry.        *)
(***************************************************************************)
EXTENDS Integers, Sequences, FiniteSets, TLC

\* ---------------------------------------------------------------- bounds
MaxSelectReq  == 2      \* theme_selection requests for the job
MaxThemes     == 2      \* themes parsed from one completion response
MaxKeywords   == 2      \* length of Job.keywords
MaxResults    == 4      \* results collected over all keywords of a job

NULL == "null"

\* index() redirects the creating client to /process/<job_id>: one
\* process_job request starts the job
ProcessReqs == {"redirect"}

\* the same page requested a second time (a reload, a second tab): two
\* process_job requests for the job
StartReqs == {"redirect", "reload"}
SelectReqs  == 1..MaxSelectReq

\* A text abstracted by its trimmed length class.
Texts == {NULL, "short", "valid"}

\* a text taken as valid as soon as it is not empty
IsValidText_NonEmpty(t) == t # NULL

\* the negation of `not text or len(text.strip()) < 100`
IsValidText(t) == t = "valid"

\* --------------------------------------------------- phase state machine
\* utils/workflow.py is not part of the sources; WorkflowManager follows
\* the documented contract of the phase state machine.
Phases ==
  << "INITIALIZATION", "RESEARCH", "ANALYSIS", "THEME_SELECTION",
     "CONTENT_IDEATION", "EDITORIAL", "COMPLETION" >>

PhaseIndex(p) == CHOOSE i \in 1..Len(Phases) : Phases[i] = p

\* WorkflowManager(): a fresh machine, no selection recorded
WorkflowManager == [current_phase |-> "INITIALIZATION", selected |-> FALSE]

\* advance_phase is legal unless the machine is in COMPLETION, or in
\* THEME_SELECTION with no selection recorded
CanAdvance(wm) ==
  /\ wm.current_phase # "COMPLETION"
  /\ (wm.current_phase = "THEME_SELECTION" => wm.selected)

advance_phase(wm) ==
  [wm EXCEPT !.current_phase = Phases[PhaseIndex(@) + 1]]

process_theme_selection(wm) == [wm EXCEPT !.selected = TRUE]

\* the snapshot stored in Job.workflow_data is the machine's state
save_state(wm) == wm

\* Job.workflow_data of a new job is {} (app.py index): no phase recorded
EmptySnapshot == [current_phase |-> NULL, selected |-> FALSE]

load_state(snapshot) ==
  IF snapshot.current_phase = NULL THEN WorkflowManager ELSE snapshot

VARIABLES
  job,        \* the Job row as committed in the store
  themes,     \* the job's Theme rows in id order: sequence of is_selected flags
  pj,         \* process_job requests: position of each
  pwt,        \* process_workflow_task executions, one per enqueue
  ts,         \* theme_selection requests: position, locals, response
  cw,         \* continue_workflow_after_selection_task executions
  hist,       \* observation counters (not read by the program)
  ra,         \* a run_agent_with_openai call: its frame at the retry loop
  ss          \* a search_serpapi call: its frame at the retry loop

vars == << job, themes, pj, pwt, ts, cw, hist, ra, ss >>

\* add_message_to_job: a new list with the message appended is assigned and
\* committed (together with every other pending change of the session)
add_message_to_job(j, n) == [j EXCEPT !.messages = @ + n]

\* add_message_to_job on a session whose job attributes were loaded before
\* an external call: `list(job.messages)` copies the list as it was loaded
\* (lines 73-75) and the whole column is overwritten with copy + message
add_message_to_loaded(j, loaded, n) ==
  [j EXCEPT !.messages = loaded.messages + n, !.logged = loaded.logged]

\* the messages column as a session has it after loading the row
loaded_messages(j) == [messages |-> j.messages, logged |-> j.logged]

\* ------------------------------------------------------------------ Init
\* Job.in_progress is read and written by tasks.py and app.py but is neither
\* declared in models.py nor set by index(); a new row carries the data
\* model's unclaimed value.
InitInProgress == FALSE

\* State after app.py index() has created the job.
InitJob ==
  [ status        |-> "initialized",
    current_phase |-> "INITIALIZATION",
    progress      |-> 0,
    workflow_data |-> EmptySnapshot,
    messages      |-> 1,
    logged        |-> {},
    error         |-> NULL,
    in_progress   |-> InitInProgress,
    search_results |-> << >>,   \* the stored results, each abstracted to its link
    brand_brief   |-> NULL,
    search_analysis |-> NULL,
    content_cluster |-> NULL,
    article_ideas |-> NULL,
    final_plan    |-> NULL,
    completed_at  |-> FALSE,
    nkeywords     |-> MaxKeywords ]

InitHist ==
  [ pwt_enqueued |-> 0,     \* process_workflow_task.delay calls
    cw_enqueued  |-> 0,     \* continue_workflow_after_selection_task.delay calls
    releases     |-> 0,     \* commits that set in_progress back to False
    body_runs    |-> 0,     \* continuation executions that passed the claim
    completions  |-> 0,     \* completion-adapter calls made by continuations
    cluster_calls |-> 0,    \* content-cluster completion calls
    adapter_calls |-> 0,    \* extractor, search and completion calls, both tasks
    awaiting_entries |-> 0, \* commits that changed status to awaiting_selection
    cw_failed    |-> FALSE ] \* a continuation met an invalid completion
                             \* result or a failing update_state

\* a process_workflow_task execution not yet enqueued, with its locals
InitTask ==
  [ pc      |-> "idle",
    wm      |-> WorkflowManager,
    idx     |-> 0,              \* keywords searched so far
    all_search_results |-> << >>,
    failed_keywords |-> << >>,  \* positions of the keywords without results
    loaded  |-> [messages |-> 0, logged |-> {}],
    nthemes |-> -1,             \* matches of the theme pattern, -1: not parsed
    deleted |-> << >>,          \* the rows removed by the pending DELETE
    completions |-> 0,          \* completion-adapter calls of this execution
    outcome |-> NULL ]

\* a continue_workflow_after_selection_task execution not yet enqueued
InitContinuation ==
  [ pc      |-> "idle",
    wm      |-> WorkflowManager,
    result  |-> -1,             \* row count of the claim, -1: not attempted
    completions |-> 0,          \* completion-adapter calls of this execution
    outcome |-> NULL ]

\* utils/agents.py 63-65: the locals of run_agent_with_openai as the retry
\* loop is entered (the client is built, the messages are truncated)
max_retries == 2
retry_delay == 6

\* utils/search.py 8: the defaults of search_serpapi's max_retries and
\* retry_delay parameters (no caller passes them)
serpapi_max_retries == 3
serpapi_retry_delay == 5

\* the frame of an adapter call that has not entered its retry loop:
\* loop index, current delay, the waits made and the provider's responses
\* so far, the value returned
NoAgentCall ==
  [ pc |-> "idle", attempt |-> 0, retry_delay |-> retry_delay,
    slept |-> << >>, responses |-> << >>, result |-> NULL ]

NoSearchCall ==
  [ pc |-> "idle", attempt |-> 0, retry_delay |-> serpapi_retry_delay,
    slept |-> << >>, responses |-> << >>, result |-> << >> ]

Init ==
  /\ job = InitJob
  /\ themes = << >>
  /\ pj = [r \in ProcessReqs |-> [pc |-> "start"]]
  /\ pwt = [r \in ProcessReqs |-> InitTask]
  /\ ts = [r \in SelectReqs |->
              [pc |-> "start", wm |-> WorkflowManager, num |-> 0, resp |-> 0,
               err |-> NULL]]
  /\ cw = [r \in SelectReqs |-> InitContinuation]
  /\ hist = InitHist
  /\ ra = NoAgentCall
  /\ ss = NoSearchCall

\* ===================================================== app.py process_job
\* lines 134-138: load the job, test its status
process_job_read(r) ==
  /\ pj[r].pc = "start"
  /\ pj' = [pj EXCEPT ![r].pc =
              IF job.status = "initialized" THEN "commit" ELSE "done"]
  /\ UNCHANGED << job, themes, pwt, ts, cw, hist, ra, ss >>

\* lines 139-144: status = processing, commit, enqueue the initial task
\* (the in-place messages.append on the JSON column is not a tracked change)
process_job_start(r) ==
  /\ pj[r].pc = "commit"
  /\ job' = [job EXCEPT !.status = "processing"]
  /\ pwt' = [pwt EXCEPT ![r].pc = "queued"]
  /\ hist' = [hist EXCEPT !.pwt_enqueued = @ + 1]
  /\ pj' = [pj EXCEPT ![r].pc = "done"]
  /\ UNCHANGED << themes, ts, cw, ra, ss >>

process_job(r) == process_job_read(r) \/ process_job_start(r)

\* ======================================== tasks.py process_workflow_task
\* the error exits: status, error text, one message carrying it, commit
pwt_error(j, text) ==
  [add_message_to_job([j EXCEPT !.status = "error", !.error = text], 1)
     EXCEPT !.logged = @ \cup {text}]

\* an error exit taken with the row as it was loaded before an external call
pwt_error_loaded(j, loaded, text) ==
  [add_message_to_loaded([j EXCEPT !.status = "error", !.error = text],
                         loaded, 1)
     EXCEPT !.logged = @ \cup {text}]

\* a task execution leaves the function
pwt_return(t, outcome) ==
  [pwt EXCEPT ![t].pc = "done", ![t].outcome = outcome]

\* lines 105-129: status/progress reset, first messages, fresh
\* WorkflowManager saved, "Retrieving content" message; `job.website_url`
\* at line 131 loads the row before the extractor is called
pwt_start(t) ==
  /\ pwt[t].pc = "queued"
  /\ job' = add_message_to_job(
              [job EXCEPT !.status = "processing",
                          !.progress = 0,
                          !.workflow_data = save_state(WorkflowManager),
                          !.current_phase = WorkflowManager.current_phase], 3)
  /\ pwt' = [pwt EXCEPT ![t] = [InitTask EXCEPT
                                  !.pc = "scrape",
                                  !.loaded = loaded_messages(job')]]
  /\ UNCHANGED << themes, pj, ts, cw, hist, ra, ss >>

\* an extractor failure after which the task goes on to the keyword search
pwt_scrape_failed_GoOn(t) ==
  [pwt EXCEPT ![t].pc = "search", ![t].outcome = "scrape_failed"]

\* line 138: `return {'status': 'error', ...}`
pwt_scrape_failed(t) == pwt_return(t, "scrape_failed")

\* lines 131-155: scrape_website; failure is terminal.  The messages of
\* lines 136 and 145 extend the list loaded at line 131.
pwt_scrape(t) ==
  /\ pwt[t].pc = "scrape"
  /\ \E success \in BOOLEAN :
       IF success
       THEN /\ job' = add_message_to_job(
                        add_message_to_loaded([job EXCEPT !.progress = 10],
                                              pwt[t].loaded, 1), 1)
            /\ pwt' = [pwt EXCEPT ![t].pc = "search"]
       ELSE /\ job' = pwt_error_loaded(job, pwt[t].loaded, "scrape error")
            /\ pwt' = pwt_scrape_failed(t)
  /\ hist' = [hist EXCEPT !.adapter_calls = @ + 1]
  /\ UNCHANGED << themes, pj, ts, cw, ra, ss >>

\* `10 + int((idx + 1) / len(job.keywords) * 10)`
KeywordProgress(idx, n) == 10 + (((idx + 1) * 10) \div n)

\* what one search_serpapi call returns: a list of results, each abstracted
\* to its "link" ("" when the result has none)
SearchResults == { << >>, << "" >>, << "a" >> }

\* utils/search.py deduplicate_results: first result of every non-empty url
RECURSIVE deduplicate_from(_, _, _)
deduplicate_from(results, seen_urls, unique_results) ==
  IF results = << >> THEN unique_results
  ELSE LET url == Head(results) IN
       IF url # "" /\ url \notin seen_urls
       THEN deduplicate_from(Tail(results), seen_urls \cup {url},
                             Append(unique_results, url))
       ELSE deduplicate_from(Tail(results), seen_urls, unique_results)

\* the results with a link, repeated links kept
deduplicate_results_NonEmpty(results) ==
  SelectSeq(results, LAMBDA url : url # "")

deduplicate_results(results) == deduplicate_from(results, {}, << >>)

\* a keyword whose search failed ends the job in error
pwt_search_failed_Fatal(j) == pwt_error(j, "search error")

\* lines 180-186: no results, or search_serpapi raised: the keyword is
\* noted in a message and the loop goes on
pwt_search_failed(j) == add_message_to_job(j, 1)

\* lines 170-195: one iteration of the keyword loop
pwt_search(t) ==
  /\ pwt[t].pc = "search"
  /\ pwt[t].idx < job.nkeywords
  /\ \E raised \in BOOLEAN, results \in SearchResults :
       LET failed == raised \/ results = << >>
           searching == add_message_to_job(job, 1)
           logged == IF failed THEN pwt_search_failed(searching)
                               ELSE add_message_to_job(searching, 1)
       IN  /\ raised => results = << >>
           /\ job' = IF logged.status = "error" THEN logged
                     ELSE [logged EXCEPT !.progress =
                             KeywordProgress(pwt[t].idx, job.nkeywords)]
           /\ pwt' = [pwt EXCEPT
                        ![t].idx = @ + 1,
                        ![t].all_search_results =
                           IF failed THEN @ ELSE @ \o results,
                        ![t].failed_keywords =
                           IF failed THEN Append(@, pwt[t].idx + 1) ELSE @]
  /\ hist' = [hist EXCEPT !.adapter_calls = @ + 1]
  /\ UNCHANGED << themes, pj, ts, cw, ra, ss >>

\* lines 198-224: deduplicate; zero unique results is terminal
\* (all_search_results and failed_keywords are not read after line 201)
pwt_dedup(t) ==
  /\ pwt[t].pc = "search"
  /\ pwt[t].idx >= job.nkeywords
  /\ LET unique_results == deduplicate_results(pwt[t].all_search_results)
         total_results == Len(unique_results)
     IN  IF total_results = 0
         THEN /\ job' = pwt_error(add_message_to_job(job, 1),
                                  "no search results")
              /\ pwt' = [pwt_return(t, "no_results") EXCEPT
                           ![t].all_search_results = << >>,
                           ![t].failed_keywords = << >>]
         ELSE /\ job' = add_message_to_job(
                          [job EXCEPT !.search_results = unique_results,
                                      !.progress = 20], 3)
              /\ pwt' = [pwt EXCEPT ![t].pc = "to_research",
                                    ![t].all_search_results = << >>,
                                    ![t].failed_keywords = << >>]
  /\ UNCHANGED << themes, pj, ts, cw, hist, ra, ss >>

\* lines 227-235, 296-304: advance_phase, save the snapshot and the phase,
\* commit; the next read of a job attribute loads the row (line 306 reads
\* job.brand_brief before the theme completion is called)
pwt_advance(t, from, to, nmsg) ==
  /\ pwt[t].pc = from
  /\ LET wm == advance_phase(pwt[t].wm) IN
       /\ job' = add_message_to_job(
                   [job EXCEPT !.workflow_data = save_state(wm),
                               !.current_phase = wm.current_phase], nmsg)
       /\ pwt' = [pwt EXCEPT ![t].wm = wm, ![t].pc = to,
                             ![t].loaded = loaded_messages(job')]
  /\ UNCHANGED << themes, pj, ts, cw, hist, ra, ss >>

pwt_to_research(t) == pwt_advance(t, "to_research", "brand_brief", 1)

\* lines 247-264 and 274-288: a completion call whose text is stored as it
\* is (no validity check); a raised provider error ends in lines 365-372
pwt_completion(t, from, to, field, prog, nmsg) ==
  /\ pwt[t].pc = from
  /\ \E res \in {"short", "valid", "raise"} :
       IF res = "raise"
       THEN /\ job' = pwt_error(job, "Error in research phase")
            /\ pwt' = [pwt_return(t, "error") EXCEPT ![t].completions = @ + 1]
       ELSE /\ job' = add_message_to_job(
                        [job EXCEPT ![field] = res, !.progress = prog], nmsg)
            /\ pwt' = [pwt EXCEPT ![t].pc = to, ![t].completions = @ + 1]
  /\ hist' = [hist EXCEPT !.adapter_calls = @ + 1]
  /\ UNCHANGED << themes, pj, ts, cw, ra, ss >>

pwt_brand_brief(t) ==
  pwt_completion(t, "brand_brief", "search_analysis", "brand_brief", 30, 2)

pwt_search_analysis(t) ==
  pwt_completion(t, "search_analysis", "to_analysis", "search_analysis", 40, 2)

pwt_to_analysis(t) == pwt_advance(t, "to_analysis", "themes", 1)

\* lines 327-343: the DELETE of the job's themes and the INSERT of one
\* unselected Theme per match are one transaction.  The DELETE removes the
\* rows committed when it ran (`deleted`); rows another transaction has
\* committed since are not touched.  When the commit fails the store keeps
\* the rows it has.
theme_commit(current, deleted, n, stored) ==
  IF stored
  THEN (IF current = deleted THEN << >> ELSE current) \o [i \in 1..n |-> FALSE]
  ELSE current

\* lines 316-327 and 357-372: the theme completion.  With the heading in
\* the response the pattern is matched (n matches, zero included) and the
\* job's themes are deleted in the open transaction.  The error exits
\* extend the messages loaded at line 306.
pwt_themes(t) ==
  /\ pwt[t].pc = "themes"
  /\ \E res \in {"heading", "no_heading", "raise"}, n \in 0..MaxThemes :
       CASE res = "heading" ->
              /\ job' = job
              /\ pwt' = [pwt EXCEPT ![t].pc = "store",
                                    ![t].nthemes = n,
                                    ![t].deleted = themes,
                                    ![t].completions = @ + 1]
         [] res = "no_heading" ->
              /\ n = 0
              /\ job' = pwt_error_loaded(job, pwt[t].loaded,
                                         "Failed to parse themes")
              /\ pwt' = [pwt_return(t, "error") EXCEPT
                           ![t].nthemes = 0, ![t].completions = @ + 1]
         [] res = "raise" ->
              /\ n = 0
              /\ job' = pwt_error_loaded(job, pwt[t].loaded,
                                         "Error in research phase")
              /\ pwt' = [pwt_return(t, "error") EXCEPT ![t].completions = @ + 1]
  /\ hist' = [hist EXCEPT !.adapter_calls = @ + 1]
  /\ UNCHANGED << themes, pj, ts, cw, ra, ss >>

\* lines 329-347: add the themes, commit, two messages.  A failed commit
\* lands in lines 365-372, whose own writes reach the store or are rolled
\* back with the session.
pwt_store(t) ==
  /\ pwt[t].pc = "store"
  /\ \E stored \in BOOLEAN, error_stored \in BOOLEAN :
       /\ themes' = theme_commit(themes, pwt[t].deleted, pwt[t].nthemes, stored)
       /\ IF stored
          THEN /\ error_stored
               /\ job' = add_message_to_job(job, 2)
               /\ pwt' = [pwt EXCEPT ![t].pc = "to_selection",
                                     ![t].deleted = << >>]
          ELSE /\ job' = IF error_stored
                         THEN pwt_error(job, "Error in research phase")
                         ELSE job
               /\ pwt' = [pwt_return(t, "error") EXCEPT ![t].deleted = << >>]
  /\ UNCHANGED << pj, ts, cw, hist, ra, ss >>

\* lines 350-356: phase THEME_SELECTION and status awaiting_selection in
\* one commit; the task ends
pwt_to_selection(t) ==
  /\ pwt[t].pc = "to_selection"
  /\ LET wm == advance_phase(pwt[t].wm) IN
       /\ job' = [job EXCEPT !.workflow_data = save_state(wm),
                             !.current_phase = wm.current_phase,
                             !.status = "awaiting_selection"]
       /\ pwt' = [pwt_return(t, "awaiting_selection") EXCEPT ![t].wm = wm]
  /\ hist' = [hist EXCEPT !.awaiting_entries =
                 IF job.status = "awaiting_selection" THEN @ ELSE @ + 1]
  /\ UNCHANGED << themes, pj, ts, cw, ra, ss >>

process_workflow_task(t) ==
  \/ pwt_start(t)
  \/ pwt_scrape(t)
  \/ pwt_search(t)
  \/ pwt_dedup(t)
  \/ pwt_to_research(t)
  \/ pwt_brand_brief(t)
  \/ pwt_search_analysis(t)
  \/ pwt_to_analysis(t)
  \/ pwt_themes(t)
  \/ pwt_store(t)
  \/ pwt_to_selection(t)

\* ================================================ app.py theme_selection
\* a response: the request leaves the handler with an HTTP status and the
\* 'error' text of the JSON body
ts_respond(r, code, err) ==
  [ts EXCEPT ![r].pc = "done", ![r].resp = code, ![r].err = err]

\* the test without the status half
ts_not_selectable_ClaimOnly(j) == j.in_progress

\* line 199: `job.in_progress or job.status != 'awaiting_selection'`
ts_not_selectable(j) == j.in_progress \/ j.status # "awaiting_selection"

\* the query taken to have found a selected Theme
already_selected_Assumed(th) == TRUE

\* app.py 217 and tasks.py 409:
\* Theme.query.filter_by(job_id=job_id, is_selected=True).first()
already_selected(th) == \E i \in 1..Len(th) : th[i]

\* line 230: `1 <= theme_number <= len(themes)`
in_range(theme_number, th) == 1 <= theme_number /\ theme_number <= Len(th)

\* lines 195-214: load the job; reject when it is claimed or not awaiting
\* selection (409), or when the body carries no digit string (400)
ts_read(r) ==
  /\ ts[r].pc = "start"
  /\ \E wellformed \in BOOLEAN :
       ts' = IF ts_not_selectable(job)
               THEN ts_respond(r, 409, "not awaiting selection")
             ELSE IF ~wellformed
               THEN ts_respond(r, 400, "Invalid theme number")
             ELSE [ts EXCEPT ![r].pc = "check",
                             ![r].wm = load_state(job.workflow_data)]
  /\ UNCHANGED << job, themes, pj, pwt, cw, hist, ra, ss >>

\* lines 217-220: query for a Theme already selected
ts_check(r) ==
  /\ ts[r].pc = "check"
  /\ ts' = IF already_selected(themes)
             THEN ts_respond(r, 409, "Theme already selected")
             ELSE [ts EXCEPT ![r].pc = "select"]
  /\ UNCHANGED << job, themes, pj, pwt, cw, hist, ra, ss >>

\* lines 227-236: query the themes; in range: flag the Theme and commit
ts_select(r) ==
  /\ ts[r].pc = "select"
  /\ \E theme_number \in 0..(MaxThemes + 1) :
       IF in_range(theme_number, themes)
       THEN /\ themes' = [themes EXCEPT ![theme_number] = TRUE]
            /\ ts' = [ts EXCEPT ![r].pc = "save", ![r].num = theme_number]
       ELSE /\ ts' = [ts_respond(r, 400, "Theme number out of range")
                         EXCEPT ![r].num = theme_number]
            /\ UNCHANGED themes
  /\ UNCHANGED << job, pj, pwt, cw, hist, ra, ss >>

\* lines 239-246: record the selection in the machine loaded at line 224,
\* store snapshot, phase and status = processing, commit
\* (the in-place messages.append on the JSON column is not a tracked change).
\* An exception on the way (the commit of line 246 fails: the store is
\* remote) lands in lines 257-261: the answer is 500, the flag committed at
\* line 236 stays.
ts_save(r) ==
  /\ ts[r].pc = "save"
  /\ \E raises \in BOOLEAN :
       LET wm == process_theme_selection(ts[r].wm) IN
         IF raises
         THEN /\ job' = job
              /\ ts' = ts_respond(r, 500, "Server error")
         ELSE /\ job' = [job EXCEPT !.workflow_data = save_state(wm),
                                    !.current_phase = wm.current_phase,
                                    !.status = "processing"]
              /\ ts' = [ts EXCEPT ![r].pc = "enqueue", ![r].wm = wm]
  /\ UNCHANGED << themes, pj, pwt, cw, hist, ra, ss >>

\* lines 249-255: continue_workflow_after_selection_task.delay, 200
ts_enqueue(r) ==
  /\ ts[r].pc = "enqueue"
  /\ cw' = [cw EXCEPT ![r].pc = "queued"]
  /\ hist' = [hist EXCEPT !.cw_enqueued = @ + 1]
  /\ ts' = ts_respond(r, 200, NULL)
  /\ UNCHANGED << job, themes, pj, pwt, ra, ss >>

theme_selection(r) ==
  \/ ts_read(r)
  \/ ts_check(r)
  \/ ts_select(r)
  \/ ts_save(r)
  \/ ts_enqueue(r)

\* ======================= tasks.py continue_workflow_after_selection_task
\* lines 392-395: UPDATE jobs SET in_progress = true
\*                WHERE id = :job_id AND in_progress = false
\* the UPDATE without the `in_progress = false` filter
ClaimRowCount_Unfiltered(j) == 1

\* the number of rows the statement matches
ClaimRowCount(j) == IF j.in_progress = FALSE THEN 1 ELSE 0

\* a claim that reports the row but leaves the flag as it was
claim_update_NoSet(j) == j

\* the SET clause of the claim
claim_update(j) == [j EXCEPT !.in_progress = TRUE]

\* a lost claim handled as a failure of the job
cw_skipped_AsError(j) ==
  [j EXCEPT !.status = "error", !.error = "already being processed",
            !.messages = @ + 1]

\* lines 397-399: the lost claim returns 'skipped'; nothing is written
cw_skipped(j) == j

\* lines 541-542: `job.in_progress = False`, commit
release(j) == [j EXCEPT !.in_progress = FALSE]

\* a task execution leaves the function
cw_return(e, outcome) == [cw EXCEPT ![e].pc = "done", ![e].outcome = outcome]

\* the inner error exits (lines 410-415, 450-457, 489-496, 544-551):
\* status, error text, one message, commit, return
cw_error(j, text) ==
  [add_message_to_job([j EXCEPT !.status = "error", !.error = text], 1)
     EXCEPT !.logged = @ \cup {text}]

\* the outer handler (lines 553-561): as above, and in_progress = False
cw_outer_error(j, text) ==
  [add_message_to_job(
     release([j EXCEPT !.status = "error", !.error = text]), 1)
     EXCEPT !.logged = @ \cup {text}]

\* lines 390-399: the claim; no row matched: 'skipped'
cw_claim(e) ==
  /\ cw[e].pc = "queued"
  /\ LET result == ClaimRowCount(job) IN
       IF result = 0
       THEN /\ job' = cw_skipped(job)
            /\ cw' = [cw_return(e, "skipped") EXCEPT ![e].result = result]
            /\ UNCHANGED hist
       ELSE /\ job' = claim_update(job)
            /\ cw' = [cw EXCEPT ![e].pc = "begin", ![e].result = result]
            /\ hist' = [hist EXCEPT !.body_runs = @ + 1]
  /\ UNCHANGED << themes, pj, pwt, ts, ra, ss >>

\* lines 402-426: load the snapshot, require a selected Theme, report the
\* task state (update_state may raise: the result backend is remote), log
cw_begin(e) ==
  /\ cw[e].pc = "begin"
  /\ \E update_state_raises \in BOOLEAN :
       IF ~already_selected(themes)
       THEN /\ ~update_state_raises
            /\ job' = cw_error(job, "No theme was selected")
            /\ cw' = cw_return(e, "error")
            /\ UNCHANGED hist
       ELSE IF update_state_raises
       THEN /\ job' = cw_outer_error(job, "exception")
            /\ cw' = cw_return(e, "error")
            /\ hist' = [hist EXCEPT !.releases = @ + 1, !.cw_failed = TRUE]
       ELSE /\ job' = add_message_to_job(job, 2)
            /\ cw' = [cw EXCEPT ![e].pc = "cluster",
                                ![e].wm = load_state(job.workflow_data)]
            /\ UNCHANGED hist
  /\ UNCHANGED << themes, pj, pwt, ts, ra, ss >>

\* lines 439-457: content cluster completion, always called
cw_cluster(e) ==
  /\ cw[e].pc = "cluster"
  /\ \E res \in {"short", "valid", "raise"} :
       /\ IF IsValidText(res)
          THEN /\ job' = add_message_to_job(
                           [job EXCEPT !.content_cluster = res,
                                       !.progress = 80], 1)
               /\ cw' = [cw EXCEPT ![e].pc = "ideas",
                                   ![e].completions = @ + 1]
          ELSE /\ job' = cw_error(job, "Error in content cluster generation")
               /\ cw' = [cw_return(e, "error") EXCEPT
                            ![e].completions = @ + 1]
       /\ hist' = [hist EXCEPT !.completions = @ + 1,
                               !.cluster_calls = @ + 1,
                               !.adapter_calls = @ + 1,
                               !.cw_failed = @ \/ ~IsValidText(res)]
  /\ UNCHANGED << themes, pj, pwt, ts, ra, ss >>

\* lines 460-506: article ideas, skipped when the stored field is valid;
\* then progress = 90 and the editing message
cw_ideas(e) ==
  /\ cw[e].pc = "ideas"
  /\ IF IsValidText(job.article_ideas)
     THEN /\ job' = add_message_to_job([job EXCEPT !.progress = 90], 3)
          /\ cw' = [cw EXCEPT ![e].pc = "plan"]
          /\ UNCHANGED hist
     ELSE /\ \E res \in {"short", "valid", "raise"} :
               IF IsValidText(res)
               THEN /\ job' = add_message_to_job(
                                [job EXCEPT !.article_ideas = res,
                                            !.progress = 90], 3)
                    /\ cw' = [cw EXCEPT ![e].pc = "plan",
                                        ![e].completions = @ + 1]
               ELSE /\ job' = cw_error(add_message_to_job(job, 1),
                                       "Error in article ideation")
                    /\ cw' = [cw_return(e, "error") EXCEPT
                                 ![e].completions = @ + 1]
          /\ hist' = [hist EXCEPT !.completions = @ + 1,
                                   !.adapter_calls = @ + 1,
                                   !.cw_failed = @ \/ cw'[e].outcome = "error"]
  /\ UNCHANGED << themes, pj, pwt, ts, ra, ss >>

\* lines 509-551: final plan.  A stored valid plan skips the whole branch
\* and the function ends.  Otherwise the completion is called; a valid
\* result is stored with progress 100, the phase is advanced and the job
\* completed in one commit.  advance_phase raising lands in lines 544-551
\* with final_plan and progress already set on the session's job.
cw_plan(e) ==
  /\ cw[e].pc = "plan"
  /\ IF IsValidText(job.final_plan)
     THEN /\ job' = add_message_to_job(job, 1)
          /\ cw' = cw_return(e, "fell_through")
          /\ UNCHANGED hist
     ELSE /\ \E res \in {"short", "valid", "raise"} :
               IF ~IsValidText(res)
               THEN /\ job' = cw_error(job, "Error in final plan generation")
                    /\ cw' = [cw_return(e, "error") EXCEPT
                                 ![e].completions = @ + 1]
               ELSE IF ~CanAdvance(cw[e].wm)
               THEN /\ job' = cw_error([job EXCEPT !.final_plan = res,
                                                   !.progress = 100],
                                       "Error in final plan generation")
                    /\ cw' = [cw_return(e, "error") EXCEPT
                                 ![e].completions = @ + 1]
               ELSE LET wm == advance_phase(cw[e].wm) IN
                    /\ job' = add_message_to_job(
                                [job EXCEPT !.final_plan = res,
                                            !.progress = 100,
                                            !.workflow_data = save_state(wm),
                                            !.current_phase = wm.current_phase,
                                            !.status = "completed",
                                            !.completed_at = TRUE], 2)
                    /\ cw' = [cw EXCEPT ![e].pc = "release", ![e].wm = wm,
                                        ![e].completions = @ + 1]
          /\ hist' = [hist EXCEPT !.completions = @ + 1,
                                   !.adapter_calls = @ + 1,
                                   !.cw_failed = @ \/ cw'[e].outcome = "error"]
  /\ UNCHANGED << themes, pj, pwt, ts, ra, ss >>

\* lines 541-543: in_progress = False, commit, return 'completed'
cw_release(e) ==
  /\ cw[e].pc = "release"
  /\ job' = release(job)
  /\ cw' = cw_return(e, "completed")
  /\ hist' = [hist EXCEPT !.releases = @ + 1]
  /\ UNCHANGED << themes, pj, pwt, ts, ra, ss >>

continue_workflow_after_selection_task(e) ==
  \/ cw_claim(e)
  \/ cw_begin(e)
  \/ cw_cluster(e)
  \/ cw_ideas(e)
  \/ cw_plan(e)
  \/ cw_release(e)

Next ==
  \/ \E r \in ProcessReqs : process_job(r)
  \/ \E t \in ProcessReqs : process_workflow_task(t)
  \/ \E r \in SelectReqs : theme_selection(r)
  \/ \E e \in SelectReqs : continue_workflow_after_selection_task(e)

Spec == Init /\ [][Next]_vars

\* A request that has entered a handler runs to its response (the web
\* worker does not stop in the middle of a view), and a task message that
\* is enqueued is delivered and the execution runs to its return (the
\* Celery worker).  The arrival of a request is not forced.
Fairness ==
  /\ \A r \in ProcessReqs : WF_vars(process_job_start(r))
  /\ \A t \in ProcessReqs : WF_vars(process_workflow_task(t))
  /\ \A r \in SelectReqs :
        WF_vars(ts_check(r) \/ ts_select(r) \/ ts_save(r) \/ ts_enqueue(r))
  /\ \A e \in SelectReqs : WF_vars(continue_workflow_after_selection_task(e))

SpecLive == Spec /\ Fairness

\* ------------------------------------------------ the job requested twice
\* The job before any theme_selection request, with process_job requested
\* by two clients: each request that reads status = initialized enqueues
\* its own process_workflow_task execution.
InitStart ==
  /\ job = InitJob
  /\ themes = << >>
  /\ pj = [r \in StartReqs |-> [pc |-> "start"]]
  /\ pwt = [r \in StartReqs |-> InitTask]
  /\ ts = [r \in SelectReqs |->
              [pc |-> "start", wm |-> WorkflowManager, num |-> 0, resp |-> 0,
               err |-> NULL]]
  /\ cw = [r \in SelectReqs |-> InitContinuation]
  /\ hist = InitHist
  /\ ra = NoAgentCall
  /\ ss = NoSearchCall

NextStart ==
  \/ \E r \in StartReqs : process_job(r)
  \/ \E t \in StartReqs : process_workflow_task(t)

SpecStart == InitStart /\ [][NextStart]_vars

\* ------------------------------------------- the continuation delivered
\* The continuation task delivered for a job on which a selection was
\* accepted (app.py 238-249), in each store state an earlier history can
\* have left: results of earlier continuation runs persisted or not
\* (tasks.py 443, 486, 531), the Theme rows with or without a selected one
\* (the rows are deleted and re-created by a later initial task, lines
\* 327-343), the claim flag free.  The message is delivered once per
\* enqueue.
AcceptedJob ==
  [InitJob EXCEPT
     !.status = "processing",
     !.current_phase = "THEME_SELECTION",
     !.progress = 40,
     !.workflow_data = [current_phase |-> "THEME_SELECTION", selected |-> TRUE],
     !.messages = 21,
     !.search_results = << "a" >>,
     !.brand_brief = "valid",
     !.search_analysis = "valid"]

InitResume ==
  /\ job \in { [AcceptedJob EXCEPT !.content_cluster = c,
                                    !.article_ideas = a,
                                    !.final_plan = f] :
                  c \in {NULL, "valid"}, a \in {NULL, "valid"},
                  f \in {NULL, "valid"} }
  /\ themes \in UNION { [1..n -> BOOLEAN] : n \in 0..MaxThemes }
  /\ pj = [r \in ProcessReqs |-> [pc |-> "done"]]
  /\ pwt = [r \in ProcessReqs |->
              [InitTask EXCEPT !.pc = "done", !.outcome = "awaiting_selection"]]
  /\ ts = [r \in SelectReqs |->
              [pc |-> "done", wm |-> AcceptedJob.workflow_data, num |-> 1,
               resp |-> 200, err |-> NULL]]
  /\ cw = [r \in SelectReqs |-> [InitContinuation EXCEPT !.pc = "queued"]]
  /\ hist = [InitHist EXCEPT !.pwt_enqueued = 1,
                             !.cw_enqueued = Cardinality(SelectReqs)]
  /\ ra = NoAgentCall
  /\ ss = NoSearchCall

NextResume ==
  \E e \in SelectReqs : continue_workflow_after_selection_task(e)

SpecResume == InitResume /\ [][NextResume]_vars

\* ------------------------------------------------ the results collected
\* The initial task after its keyword loop (tasks.py 170-195), with every
\* list of results the searches of a job can have brought together: links
\* repeated across keywords and results without a link included.
Links == {"", "a", "b"}

InitDedup ==
  /\ job = add_message_to_job(
             [InitJob EXCEPT !.status = "processing", !.progress = 20],
             5 + 3 * MaxKeywords)
  /\ themes = << >>
  /\ pj = [r \in ProcessReqs |-> [pc |-> "done"]]
  /\ pwt \in { [r \in ProcessReqs |->
                  [InitTask EXCEPT !.pc = "search",
                                   !.idx = MaxKeywords,
                                   !.all_search_results = results]] :
                results \in UNION { [1..n -> Links] : n \in 0..MaxResults } }
  /\ ts = [r \in SelectReqs |->
              [pc |-> "start", wm |-> WorkflowManager, num |-> 0, resp |-> 0,
               err |-> NULL]]
  /\ cw = [r \in SelectReqs |-> InitContinuation]
  /\ hist = [InitHist EXCEPT !.pwt_enqueued = 1,
                             !.adapter_calls = 1 + MaxKeywords]
  /\ ra = NoAgentCall
  /\ ss = NoSearchCall

NextDedup == \E t \in ProcessReqs : pwt_dedup(t)

SpecDedup == InitDedup /\ [][NextDedup]_vars

\* ------------------------------------------- the second task running late
\* The job requested twice (two initial tasks enqueued, as in SpecStart),
\* at the point where the first execution has stored its themes and set
\* awaiting_selection while the second one, started after the first one's
\* themes were stored, has committed its own phase ANALYSIS (tasks.py
\* 296-304) and is about to call the theme completion.  From here the
\* client selects a theme while the second execution goes on.
InitLate ==
  /\ job = [InitJob EXCEPT
              !.status = "awaiting_selection",
              !.current_phase = "ANALYSIS",
              !.workflow_data = [current_phase |-> "ANALYSIS",
                                 selected |-> FALSE],
              !.progress = 40,
              !.messages = 31 + 4 * MaxKeywords,
              !.search_results = << "a" >>,
              !.brand_brief = "valid",
              !.search_analysis = "valid"]
  /\ themes = [i \in 1..MaxThemes |-> FALSE]
  /\ pj = [r \in StartReqs |-> [pc |-> "done"]]
  /\ pwt = [r \in StartReqs |->
              IF r = "redirect"
              THEN [InitTask EXCEPT
                      !.pc = "done",
                      !.outcome = "awaiting_selection",
                      !.wm = [current_phase |-> "THEME_SELECTION",
                              selected |-> FALSE],
                      !.idx = MaxKeywords,
                      !.loaded = [messages |-> 15 + 2 * MaxKeywords,
                                  logged |-> {}],
                      !.nthemes = MaxThemes,
                      !.completions = 3]
              ELSE [InitTask EXCEPT
                      !.pc = "themes",
                      !.wm = [current_phase |-> "ANALYSIS",
                              selected |-> FALSE],
                      !.idx = MaxKeywords,
                      !.loaded = [messages |-> 31 + 4 * MaxKeywords,
                                  logged |-> {}],
                      !.completions = 2]]
  /\ ts = [r \in SelectReqs |->
              [pc |-> "start", wm |-> WorkflowManager, num |-> 0, resp |-> 0,
               err |-> NULL]]
  /\ cw = [r \in SelectReqs |-> InitContinuation]
  /\ hist = [InitHist EXCEPT !.pwt_enqueued = 2,
                             !.adapter_calls = 7 + 2 * MaxKeywords,
                             !.awaiting_entries = 1]
  /\ ra = NoAgentCall
  /\ ss = NoSearchCall

NextLate ==
  \/ \E t \in StartReqs : pwt_themes(t) \/ pwt_store(t) \/ pwt_to_selection(t)
  \/ \E r \in SelectReqs : theme_selection(r)
  \/ \E e \in SelectReqs : continue_workflow_after_selection_task(e)

SpecLate == InitLate /\ [][NextLate]_vars

\* --------------------------------------------------- the row as created
\* app.py 101-115 with models.py 10-28: index() passes no in_progress and
\* the Job class declares no such column, so the row it inserts has the
\* declared columns only.
index == [c \in DOMAIN InitJob \ {"in_progress"} |-> InitJob[c]]

\* The job from its creation up to awaiting_selection: the steps that
\* neither read nor write in_progress.
InitIndex ==
  /\ job = index
  /\ themes = << >>
  /\ pj = [r \in ProcessReqs |-> [pc |-> "start"]]
  /\ pwt = [r \in ProcessReqs |-> InitTask]
  /\ ts = [r \in SelectReqs |->
              [pc |-> "start", wm |-> WorkflowManager, num |-> 0, resp |-> 0,
               err |-> NULL]]
  /\ cw = [r \in SelectReqs |-> InitContinuation]
  /\ hist = InitHist
  /\ ra = NoAgentCall
  /\ ss = NoSearchCall

NextIndex ==
  \/ \E r \in ProcessReqs : process_job(r)
  \/ \E t \in ProcessReqs : process_workflow_task(t)

SpecIndex == InitIndex /\ [][NextIndex]_vars

\* ------------------------------------------------- the adapters' retries
\* `attempt < max_retries - 1` (agents.py 91; search.py 89, 101, 107, 113)
\* with the test always false: the first failure is final
retry_allowed_Never(attempt, retries) == FALSE

retry_allowed(attempt, retries) == attempt < retries - 1

\* what client.chat.completions.create does on one attempt: it raises (API
\* error, timeout after 60 s), or returns a response without choices, with
\* a choice whose content is None, or with a text (by trimmed length class)
AgentResponses == {"raise", "no_choices", "no_content", "short", "valid"}

\* line 83-84: `response.choices` is non-empty and `.content.strip()` is
\* defined
agent_succeeded(response) == response \in {"short", "valid"}

\* agents.py 67-96, one pass of the loop body: the request, and on success
\* the return of the stripped text; a failure is followed by the wait or,
\* on the last pass, re-raised (and wrapped at lines 98-101)
ra_request ==
  /\ ra.pc = "request"
  /\ \E response \in AgentResponses :
       ra' = IF agent_succeeded(response)
               THEN [ra EXCEPT !.pc = "returned",
                               !.responses = Append(@, response),
                               !.result = response]
             ELSE IF retry_allowed(ra.attempt, max_retries)
               THEN [ra EXCEPT !.pc = "sleep",
                               !.responses = Append(@, response)]
             ELSE [ra EXCEPT !.pc = "raised",
                             !.responses = Append(@, response)]
  /\ UNCHANGED << job, themes, pj, pwt, ts, cw, hist, ss >>

\* lines 92-94 and 67: time.sleep(retry_delay), the delay doubled, the next
\* value of `attempt`; when range(max_retries) is used up the function
\* ends and returns None
ra_sleep ==
  /\ ra.pc = "sleep"
  /\ ra' = [ra EXCEPT !.slept = Append(@, ra.retry_delay),
                      !.retry_delay = 2 * @,
                      !.attempt = @ + 1,
                      !.pc = IF ra.attempt + 1 < max_retries
                               THEN "request" ELSE "returned"]
  /\ UNCHANGED << job, themes, pj, pwt, ts, cw, hist, ss >>

run_agent_with_openai == ra_request \/ ra_sleep

\* what requests.get / raise_for_status / response.json() give on one
\* attempt: one of the three exception classes the loop handles, or the
\* decoded body with its results (organic and video entries, each by its
\* link) and with or without an "error" key
SerpResponses ==
  { [kind |-> k, results |-> << >>, error |-> FALSE] :
       k \in {"Timeout", "ConnectionError", "RequestException"} }
  \cup { [kind |-> "data", results |-> s, error |-> e] :
           s \in SearchResults, e \in BOOLEAN }

\* an empty body reported like an error body
serp_error_OrEmpty(response) ==
  response.kind = "data" /\ response.results = << >>

\* search.py 86-87: `not results` and `"error" in data`
serp_error(response) ==
  response.kind = "data" /\ response.results = << >> /\ response.error

\* search.py 52-117, one pass of the loop body.  Results, or an empty body
\* without an error, are returned at once.  An exception of the request or
\* an error body is followed by the wait, or on the last pass raised (the
\* RequestException of line 93 passes through the handler of line 112).
ss_request ==
  /\ ss.pc = "request"
  /\ \E response \in SerpResponses :
       ss' = IF response.kind = "data" /\ ~serp_error(response)
               THEN [ss EXCEPT !.pc = "returned",
                               !.responses = Append(@, response),
                               !.result = response.results]
             ELSE IF retry_allowed(ss.attempt, serpapi_max_retries)
               THEN [ss EXCEPT !.pc = "sleep",
                               !.responses = Append(@, response)]
             ELSE [ss EXCEPT !.pc = "raised",
                             !.responses = Append(@, response)]
  /\ UNCHANGED << job, themes, pj, pwt, ts, cw, hist, ra >>

\* time.sleep(retry_delay), `continue`: the next value of `attempt`; when
\* range(max_retries) is used up the function ends and returns None
ss_sleep ==
  /\ ss.pc = "sleep"
  /\ ss' = [ss EXCEPT !.slept = Append(@, ss.retry_delay),
                      !.attempt = @ + 1,
                      !.pc = IF ss.attempt + 1 < serpapi_max_retries
                               THEN "request" ELSE "returned"]
  /\ UNCHANGED << job, themes, pj, pwt, ts, cw, hist, ra >>

search_serpapi == ss_request \/ ss_sleep

\* One call of each adapter, each in its retry loop (agents.py 67,
\* search.py 52), made by different processes: the two calls share nothing
\* and their steps interleave.  A call that is running goes on: the
\* requests have timeouts (60 s, 30 s) and the waits are finite.
InitAdapters ==
  /\ job = InitJob
  /\ themes = << >>
  /\ pj = [r \in ProcessReqs |-> [pc |-> "start"]]
  /\ pwt = [r \in ProcessReqs |-> InitTask]
  /\ ts = [r \in SelectReqs |->
              [pc |-> "start", wm |-> WorkflowManager, num |-> 0, resp |-> 0,
               err |-> NULL]]
  /\ cw = [r \in SelectReqs |-> InitContinuation]
  /\ hist = InitHist
  /\ ra = [NoAgentCall EXCEPT !.pc = "request"]
  /\ ss = [NoSearchCall EXCEPT !.pc = "request"]

NextAdapters == run_agent_with_openai \/ search_serpapi

SpecAdapters ==
  /\ InitAdapters
  /\ [][NextAdapters]_vars
  /\ WF_vars(run_agent_with_openai)
  /\ WF_vars(search_serpapi)

\* ================================================================ claims
\* continuation executions that have made their claim attempt
Attempted == {e \in DOMAIN cw : cw[e].result # -1}

\* continuation executions between a won claim and their return
InBody == {e \in DOMAIN cw :
             cw[e].pc \in {"begin", "cluster", "ideas", "plan", "release"}}

SelectedThemes == {i \in 1..Len(themes) : themes[i]}

\* C1: as long as no release has happened, of the executions that have
\* attempted the claim on the (initially unclaimed) job exactly one got an
\* affected-row count of 1 and went on, and every other one got 0 and
\* returned 'skipped'.
C1_ExactlyOneClaimWins ==
  (hist.releases = 0 /\ Attempted # {}) =>
    /\ Cardinality({e \in Attempted : cw[e].result = 1}) = 1
    /\ \A e \in Attempted :
         /\ cw[e].result \in {0, 1}
         /\ (cw[e].result = 0) <=> (cw[e].outcome = "skipped")

\* two executions have attempted the claim and nothing was released
C1_Witness ==
  /\ hist.releases = 0
  /\ Cardinality(Attempted) >= 2
  /\ \E e \in Attempted : cw[e].outcome = "skipped"

\* C2: at most one execution is inside the continuation body (past a won
\* claim, not yet returned) at any time.
C2_SingleOwner == Cardinality(InBody) <= 1

\* one execution is inside the body while another was turned away
C2_Witness ==
  /\ InBody # {}
  /\ \E e \in DOMAIN cw : cw[e].outcome = "skipped"

\* C3: the step on which an execution that won the claim ends in failure
\* leaves status = error, an error text, and in_progress = false.
C3_FailureReleasesClaim ==
  [][\A e \in DOMAIN cw :
       (cw[e].outcome # "error" /\ cw'[e].outcome = "error") =>
          /\ job'.status = "error"
          /\ job'.error # NULL
          /\ job'.in_progress = FALSE]_vars

\* C4: when an execution that won the claim returns after all its steps
\* succeeded, the job has status = completed, completed_at set and
\* in_progress = false.
C4_SuccessEndsCompleted ==
  [][\A e \in DOMAIN cw :
       (cw[e].pc # "done" /\ cw'[e].pc = "done"
          /\ cw'[e].outcome \in {"completed", "fell_through"}) =>
          /\ job'.status = "completed"
          /\ job'.completed_at
          /\ job'.in_progress = FALSE]_vars

\* C5: however the enqueued continuation executions are delivered, the
\* body after a won claim (and with it the content-cluster completion
\* call) runs at most once for the job.
C5_BodyAtMostOnce == hist.body_runs <= 1 /\ hist.cluster_calls <= 1

\* C6: the step on which a claim attempt affects no row returns 'skipped'
\* and leaves the Job row and the Theme rows as they were.
C6_LostClaimChangesNothing ==
  [][\A e \in DOMAIN cw :
       (cw[e].pc = "queued" /\ cw'[e].result = 0) =>
          /\ cw'[e].outcome = "skipped"
          /\ job' = job
          /\ themes' = themes]_vars

\* an execution lost the claim and returned 'skipped'
C6_Witness ==
  \E e \in DOMAIN cw : cw[e].result = 0 /\ cw[e].outcome = "skipped"

\* C7: a theme_selection request whose test finds the job not awaiting
\* selection or claimed, a Theme already selected, or the theme number
\* outside 1..len(themes), is answered with an error on that step and
\* changes no Job or Theme row and enqueues nothing.
C7_RejectionsDoNotMutate ==
  [][\A r \in DOMAIN ts :
       LET rejected(code) ==
             /\ ts'[r].pc = "done"
             /\ ts'[r].resp = code
             /\ job' = job
             /\ themes' = themes
             /\ cw' = cw
             /\ cw[r].pc = "idle"
       IN  ts'[r] # ts[r] =>
             /\ (ts[r].pc = "start"
                   /\ (job.status # "awaiting_selection" \/ job.in_progress))
                  => rejected(409)
             /\ (ts[r].pc = "check" /\ SelectedThemes # {})
                  => rejected(409)
             /\ (ts[r].pc = "select"
                   /\ (ts'[r].num < 1 \/ ts'[r].num > Len(themes)))
                  => rejected(400)]_vars

\* one request was accepted; another passed the status test and was then
\* rejected because a Theme was already selected
C7_Witness ==
  \E r, q \in DOMAIN ts :
    /\ ts[r].resp = 200
    /\ ts[q].resp = 409
    /\ ts[q].err = "Theme already selected"

\* C8: of the theme_selection requests for the job at most one is accepted
\* and at most one continuation task is enqueued.
C8_OneSelectionAccepted ==
  /\ Cardinality({r \in DOMAIN ts : ts[r].resp = 200}) <= 1
  /\ hist.cw_enqueued <= 1

\* C9: at most one Theme of the job is selected, and a selected Theme
\* stays selected.
C9_SelectionUniqueAndFinal ==
  /\ [](Cardinality(SelectedThemes) <= 1)
  /\ [][\A i \in SelectedThemes : i <= Len(themes') /\ themes'[i]]_vars

\* C10: every change of Job.current_phase goes from a phase to its
\* immediate successor in the fixed order.
C10_PhaseStepsForward ==
  [][job'.current_phase # job.current_phase =>
       PhaseIndex(job'.current_phase) = PhaseIndex(job.current_phase) + 1]_vars

\* C11: every change of Job.status follows initialized -> processing ->
\* awaiting_selection -> processing -> completed, or processing -> error;
\* completed and error are never left; awaiting_selection is entered at
\* most once.
C11_StatusLifeCycle ==
  /\ [][job'.status # job.status =>
          << job.status, job'.status >> \in
             { << "initialized", "processing" >>,
               << "processing", "awaiting_selection" >>,
               << "awaiting_selection", "processing" >>,
               << "processing", "completed" >>,
               << "processing", "error" >> }]_vars
  /\ [](hist.awaiting_entries <= 1)

\* C12: Job.progress is always an integer in 0..100, and while the job is
\* not in error every write stores a value at least as large as the stored
\* one.
C12_ProgressMonotone ==
  /\ [](job.progress \in 0..100)
  /\ [][(job.status # "error" /\ job'.status # "error") =>
          job'.progress >= job.progress]_vars

\* C13: Job.messages is append-only: no write of either task or of a web
\* handler leaves the stored list shorter than it was (the list before the
\* write is a prefix of the list after it), also when two writers hold
\* copies of the list.
C13_MessagesAppendOnly ==
  [][job'.messages >= job.messages]_vars

\* C14: whenever status = error the error field is set and the messages
\* hold an entry carrying that error text; and the error field is set only
\* while status = error.
C14_ErrorRecorded ==
  /\ job.status = "error" => (job.error # NULL /\ job.error \in job.logged)
  /\ job.error # NULL => job.status = "error"

\* C15: once status = error, no later step of either task advances
\* current_phase, calls an external adapter (extractor, search, completion)
\* or writes a domain output.
C15_ErrorStopsTasks ==
  [][(job.status = "error" /\ (pwt' # pwt \/ cw' # cw)) =>
       /\ job'.current_phase = job.current_phase
       /\ hist'.adapter_calls = hist.adapter_calls
       /\ job'.search_results = job.search_results
       /\ job'.brand_brief = job.brand_brief
       /\ job'.search_analysis = job.search_analysis
       /\ job'.content_cluster = job.content_cluster
       /\ job'.article_ideas = job.article_ideas
       /\ job'.final_plan = job.final_plan
       /\ themes' = themes]_vars

\* C16: on the step where the extractor reports failure the initial task
\* sets status = error with the extractor's error text (also carried by a
\* message), leaves the phase where it is, INITIALIZATION for this
\* execution's machine, and ends; that execution has called neither the
\* search nor the completion adapter.
C16_ExtractorFailureStops ==
  /\ [][\A t \in DOMAIN pwt :
          (pwt[t].pc = "scrape" /\ pwt'[t].outcome = "scrape_failed") =>
             /\ job'.status = "error"
             /\ job'.error = "scrape error"
             /\ job'.error \in job'.logged
             /\ job'.current_phase = job.current_phase
             /\ pwt'[t].wm.current_phase = "INITIALIZATION"]_vars
  /\ [](\A t \in DOMAIN pwt :
          pwt[t].outcome = "scrape_failed" =>
             /\ pwt[t].pc = "done"
             /\ pwt[t].idx = 0
             /\ pwt[t].completions = 0)

\* an execution ended on the extractor's failure
C16_Witness ==
  \E t \in DOMAIN pwt :
    /\ pwt[t].outcome = "scrape_failed"
    /\ job.status = "error"
    /\ job.current_phase = "INITIALIZATION"

\* C17: a keyword whose search raises or returns nothing does not fail the
\* job: the step appends a message, leaves status and error alone and the
\* loop goes on; after the last keyword the job is set to error exactly
\* when no result with a distinct non-empty link was collected, and
\* otherwise the results are stored and the task moves on to RESEARCH.
C17_SearchFailureTolerated ==
  [][\A t \in DOMAIN pwt :
       LET all == pwt[t].all_search_results
           links == {all[i] : i \in 1..Len(all)} \ {""}
       IN
       /\ (pwt[t].pc = "search" /\ pwt'[t].idx = pwt[t].idx + 1
             /\ Len(pwt'[t].failed_keywords) > Len(pwt[t].failed_keywords)) =>
            /\ job'.status = job.status
            /\ job'.error = job.error
            /\ job'.messages > job.messages
            /\ pwt'[t].pc = "search"
       /\ (pwt[t].pc = "search" /\ pwt'[t].pc # "search") =>
            /\ pwt[t].idx = job.nkeywords
            /\ (links = {}) <=> (job'.status = "error")
            /\ (links = {}) <=> (pwt'[t].outcome = "no_results")
            /\ (links # {}) =>
                 /\ pwt'[t].pc = "to_research"
                 /\ job'.search_results # << >>
                 /\ job'.status = job.status
       /\ (pwt[t].pc = "to_research" /\ pwt'[t].pc # "to_research") =>
            /\ job'.current_phase = "RESEARCH"
            /\ job'.status = job.status]_vars

\* the first keyword's search failed, the remaining keywords were searched
\* and brought a result with a link, and the job is not in error
C17_Witness ==
  \E t \in DOMAIN pwt :
    /\ pwt[t].pc = "search"
    /\ pwt[t].idx = job.nkeywords
    /\ pwt[t].idx >= 2
    /\ pwt[t].failed_keywords = << 1 >>
    /\ deduplicate_results(pwt[t].all_search_results) # << >>
    /\ job.status = "processing"
    /\ job.error = NULL

\* C18: an initial task whose theme completion yields zero parsable themes
\* (the heading missing, or present with no match of the pattern) never
\* moves the job on to awaiting_selection.
C18_NoThemesIsError ==
  \A t \in DOMAIN pwt :
    pwt[t].nthemes = 0 =>
      /\ pwt[t].pc # "to_selection"
      /\ pwt[t].outcome # "awaiting_selection"

\* C19: theme creation is all-or-nothing: the step that commits the
\* created themes leaves either the Theme rows that existed before it or
\* exactly the complete parsed set, every Theme unselected.
C19_ThemesAllOrNothing ==
  [][\A t \in DOMAIN pwt :
       (pwt[t].pc = "store" /\ pwt'[t].pc # "store") =>
          \/ themes' = themes
          \/ /\ Len(themes') = pwt[t].nthemes
             /\ \A i \in 1..Len(themes') : themes'[i] = FALSE]_vars

\* C20: an initial-task execution that has set status = awaiting_selection
\* takes no further step, and while the job awaits selection every step
\* that is not a theme_selection request's leaves current_phase, progress,
\* the domain outputs and the Theme rows as they are and calls no adapter.
C20_QuietWhileAwaiting ==
  /\ [][\A t \in DOMAIN pwt :
          pwt[t].outcome = "awaiting_selection" => pwt'[t] = pwt[t]]_vars
  /\ [][(job.status = "awaiting_selection" /\ ts' = ts) =>
          /\ job'.current_phase = job.current_phase
          /\ job'.progress = job.progress
          /\ job'.search_results = job.search_results
          /\ job'.brand_brief = job.brand_brief
          /\ job'.search_analysis = job.search_analysis
          /\ job'.content_cluster = job.content_cluster
          /\ job'.article_ideas = job.article_ideas
          /\ job'.final_plan = job.final_plan
          /\ themes' = themes
          /\ hist'.adapter_calls = hist.adapter_calls]_vars

\* C21: the step on which a continuation execution that won the claim
\* finds no Theme with is_selected = true sets status = error with the
\* error text 'No theme was selected', appends a message carrying it and
\* ends the execution, which has called the completion adapter zero times.
C21_NoSelectedThemeIsError ==
  [][\A e \in DOMAIN cw :
       (cw[e].pc = "begin" /\ cw'[e].pc # "begin"
          /\ \A i \in 1..Len(themes) : ~themes[i]) =>
          /\ job'.status = "error"
          /\ job'.error = "No theme was selected"
          /\ job'.error \in job'.logged
          /\ job'.messages > job.messages
          /\ cw'[e].pc = "done"
          /\ cw'[e].outcome = "error"
          /\ cw'[e].completions = 0
          /\ hist'.completions = hist.completions]_vars

\* an execution won the claim on a job without a selected Theme and ended
C21_Witness ==
  \E e \in DOMAIN cw :
    /\ cw[e].result = 1
    /\ cw[e].outcome = "error"
    /\ job.error = "No theme was selected"
    /\ \A i \in 1..Len(themes) : ~themes[i]

\* C22: a continuation execution that runs on a job whose content_cluster,
\* article_ideas and final_plan are all persisted and valid skips every
\* step: no step of it calls the completion adapter.
C22_SatisfiedStepsSkipped ==
  [][\A e \in DOMAIN cw :
       (cw[e].pc \in {"cluster", "ideas", "plan"} /\ cw'[e] # cw[e]
          /\ job.content_cluster = "valid"
          /\ job.article_ideas = "valid"
          /\ job.final_plan = "valid") =>
          /\ cw'[e].completions = cw[e].completions
          /\ hist'.completions = hist.completions]_vars

\* C23: if a theme_selection request is accepted, then at some time the
\* job has status = completed, progress = 100 and in_progress = false,
\* unless a completion call of a continuation returned an invalid result
\* (or the task-state report failed).
C23_AcceptedEventuallyCompleted ==
  <>(\E r \in DOMAIN ts : ts[r].resp = 200)
    => <>(\/ /\ job.status = "completed"
             /\ job.progress = 100
             /\ job.in_progress = FALSE
          \/ hist.cw_failed)

\* C24: deduplicate_results returns exactly the entries with a non-empty
\* link that are the first of their link, in input order (a subsequence of
\* the input with pairwise distinct links), and applying it to its own
\* output returns that output.  The job ends in error at this step exactly
\* when that list is empty.
C24_DedupFirstOccurrence ==
  [][\A t \in DOMAIN pwt :
       LET x == pwt[t].all_search_results
           out == job'.search_results
           keep == {i \in 1..Len(x) :
                      x[i] # "" /\ \A j \in 1..(i - 1) : x[j] # x[i]}
       IN  /\ (pwt[t].pc = "search" /\ pwt'[t].pc = "to_research") =>
                /\ Len(out) = Cardinality(keep)
                /\ \A i \in keep :
                     out[Cardinality({j \in keep : j <= i})] = x[i]
                /\ \A k, l \in 1..Len(out) : k # l => out[k] # out[l]
                /\ deduplicate_results(out) = out
           /\ (pwt[t].pc = "search" /\ pwt'[t].pc = "done") => keep = {}]_vars

\* two distinct links were kept, in the order in which they first appeared
C24_Witness ==
  \E t \in DOMAIN pwt :
    /\ pwt[t].pc = "to_research"
    /\ job.search_results = << "b", "a" >>

\* C25: the initial task is enqueued at most once for the job, and only by
\* a step that finds status = initialized in the store.
C25_InitialTaskEnqueuedOnce ==
  /\ [](hist.pwt_enqueued <= 1)
  /\ [][hist'.pwt_enqueued # hist.pwt_enqueued =>
          job.status = "initialized"]_vars

\* C26: in every stored state with status = awaiting_selection the phase
\* is THEME_SELECTION.
C26_AwaitingInThemeSelection ==
  job.status = "awaiting_selection" => job.current_phase = "THEME_SELECTION"

\* C27: in every stored state with status = completed the phase is
\* COMPLETION.
C27_CompletedInCompletion ==
  job.status = "completed" => job.current_phase = "COMPLETION"

\* C28: an execution that finds final_plan already stored and valid when
\* it reaches the final-plan step returns with the phase advanced to
\* COMPLETION, status = completed and the claim released.
C28_ResumptionCompletes ==
  [][\A e \in DOMAIN cw :
       (cw[e].pc = "plan" /\ job.final_plan = "valid" /\ cw'[e].pc = "done") =>
          /\ job'.status = "completed"
          /\ job'.in_progress = FALSE
          /\ job'.current_phase = "COMPLETION"]_vars

\* C29: the article-ideas step and the final-plan step of the continuation
\* call the completion adapter exactly when the stored field (article_ideas,
\* final_plan) is empty or shorter than 100 characters as the step starts;
\* when the field is valid the step leaves the stored value as it is.
C29_StepCalledIffFieldInvalid ==
  [][\A e \in DOMAIN cw :
       /\ (cw[e].pc = "ideas" /\ cw'[e] # cw[e]) =>
            /\ (job.article_ideas # "valid") <=>
                 (cw'[e].completions = cw[e].completions + 1)
            /\ (job.article_ideas = "valid") =>
                 /\ cw'[e].completions = cw[e].completions
                 /\ hist'.completions = hist.completions
                 /\ job'.article_ideas = job.article_ideas
       /\ (cw[e].pc = "plan" /\ cw'[e] # cw[e]) =>
            /\ (job.final_plan # "valid") <=>
                 (cw'[e].completions = cw[e].completions + 1)
            /\ (job.final_plan = "valid") =>
                 /\ cw'[e].completions = cw[e].completions
                 /\ hist'.completions = hist.completions
                 /\ job'.final_plan = job.final_plan]_vars

\* an execution skipped the article-ideas step on a stored valid value and
\* called the adapter for the missing final plan
C29_Witness ==
  \E e \in DOMAIN cw :
    /\ cw[e].outcome = "completed"
    /\ cw[e].completions = 2
    /\ job.article_ideas = "valid"
    /\ job.final_plan = "valid"

\* C30: an execution of the initial task that finds a result of an earlier
\* execution stored (the search results, a valid brand_brief, a valid
\* search_analysis) does not call the adapter of that step again.
C30_InitialTaskIdempotent ==
  [][\A t \in DOMAIN pwt :
       /\ (pwt[t].pc = "search" /\ pwt'[t].idx # pwt[t].idx
             /\ job.search_results # << >>) =>
            hist'.adapter_calls = hist.adapter_calls
       /\ (pwt[t].pc = "brand_brief" /\ pwt'[t] # pwt[t]
             /\ job.brand_brief = "valid") =>
            pwt'[t].completions = pwt[t].completions
       /\ (pwt[t].pc = "search_analysis" /\ pwt'[t] # pwt[t]
             /\ job.search_analysis = "valid") =>
            pwt'[t].completions = pwt[t].completions]_vars

\* C31: no step stores an empty or too short text in a domain output
\* field: whenever brand_brief, search_analysis, content_cluster,
\* article_ideas or final_plan changes in the store, the new value is a
\* valid text (an invalid completion result leaves the field as it was).
C31_InvalidResultNeverStored ==
  [][\A f \in {"brand_brief", "search_analysis", "content_cluster",
               "article_ideas", "final_plan"} :
       job'[f] # job[f] => job'[f] = "valid"]_vars

\* C32: the stored phase never points ahead of the stored data: a phase at
\* or beyond RESEARCH has brand_brief stored, a phase at or beyond ANALYSIS
\* has the job's Theme rows stored, and phase COMPLETION has final_plan
\* stored.
C32_PhaseNotAheadOfData ==
  LET at == PhaseIndex(job.current_phase) IN
    /\ at >= PhaseIndex("RESEARCH") => job.brand_brief # NULL
    /\ at >= PhaseIndex("ANALYSIS") => themes # << >>
    /\ job.current_phase = "COMPLETION" => job.final_plan # NULL

\* C33: no stored state has a Theme of the job with is_selected = true
\* while Job.status is still awaiting_selection.
C33_SelectionVisibleWithStatus ==
  ~(SelectedThemes # {} /\ job.status = "awaiting_selection")

C35_SearchBoundedRetries ==
  /\ [](LET n == Len(ss.responses)
            failed(i) ==
              \/ ss.responses[i].kind # "data"
              \/ (ss.responses[i].results = << >> /\ ss.responses[i].error)
        IN  /\ n <= 3
            /\ ss.pc = "raised" => (n = 3 /\ \A i \in 1..n : failed(i))
            /\ ss.pc = "sleep" => (n < 3 /\ failed(n))
            /\ ss.pc = "returned" =>
                 /\ n >= 1
                 /\ ~failed(n)
                 /\ ss.result = ss.responses[n].results
                 /\ Len(ss.slept) = n - 1)
  /\ [][\A k \in 1..Len(ss'.responses) :
          (k > Len(ss.responses)
             /\ ss'.responses[k].kind = "data"
             /\ ss'.responses[k].results = << >>
             /\ ~ss'.responses[k].error) =>
            /\ ss'.pc = "returned"
            /\ ss'.result = << >>
            /\ ss'.slept = ss.slept]_vars

\* two requests failed (a timeout, an error body), the third returned an
\* empty body without an error: the empty list was returned
C35_Witness ==
  /\ ss.pc = "returned"
  /\ Len(ss.responses) = 3
  /\ ss.responses[1].kind = "Timeout"
  /\ ss.responses[2].kind = "data" /\ ss.responses[2].error
  /\ ss.result = << >>
  /\ ss.slept = << 5, 5 >>

\* C36: a theme_selection request enqueues the continuation only after it
\* has committed its Theme as selected and the snapshot with status =
\* processing; and every continuation execution that queries for the
\* selected Theme finds one.
C36_ContinuationFindsSelection ==
  [][/\ \A r \in DOMAIN ts :
          (ts[r].pc = "enqueue" /\ ts'[r].pc = "done") =>
             /\ ts[r].num >= 1
             /\ ts[r].wm.selected
             /\ cw'[r].pc = "queued"
     /\ \A e \in DOMAIN cw :
          (cw[e].pc = "begin" /\ cw'[e] # cw[e]) => SelectedThemes # {}]_vars

\* C37: once the job is completed (status = completed, the claim
\* released), no step changes its status, progress, current_phase,
\* in_progress or a domain output field, and no step calls the completion
\* adapter.
C37_CompletedIsFrozen ==
  [][(job.status = "completed" /\ ~job.in_progress) =>
       /\ job'.status = job.status
       /\ job'.progress = job.progress
       /\ job'.current_phase = job.current_phase
       /\ job'.in_progress = job.in_progress
       /\ \A f \in {"brand_brief", "search_analysis", "content_cluster",
                    "article_ideas", "final_plan"} : job'[f] = job[f]
       /\ hist'.completions = hist.completions]_vars

\* C38: in every stored state with status = completed, progress is 100,
\* completed_at is set and content_cluster, article_ideas and final_plan
\* are valid texts.
C38_CompletedIsComplete ==
  job.status = "completed" =>
    /\ job.progress = 100
    /\ job.completed_at
    /\ job.content_cluster = "valid"
    /\ job.article_ideas = "valid"
    /\ job.final_plan = "valid"

\* C39: whenever a Theme of the job is selected, the job's status is, then
\* or at some later time, no longer awaiting_selection.
C39_SelectedLeavesAwaiting ==
  [](SelectedThemes # {} => <>(job.status # "awaiting_selection"))

\* C40: as long as no continuation has attempted the claim, the job's row
\* has an in_progress value, that value is false, and the claim statement
\* matches the row.
C40_NewJobUnclaimed ==
  Attempted = {} =>
    /\ "in_progress" \in DOMAIN job
    /\ job.in_progress = FALSE
    /\ ClaimRowCount(job) = 1
====
